---- MODULE Spec2Model ----
(***************************************************************************)
(* Model of piicatcher/scanner.py: the two built-in detectors              *)
(* (ColumnNameRegexDetector, DatumRegexDetector) and the two scan drivers  *)
(* (metadata_scan, data_scan).                                             *)
(*                                                                         *)
(* A column name is a sequence of one-character strings, so that the       *)
(* regular expressions of the name detector are computed on the text.      *)
(***************************************************************************)
EXTENDS Integers, Sequences, FiniteSets, TLC

\* Python's None as the result of detect(): nothing found.
None == "None"

(***************************************************************************)
(* Bounds of the model.                                                    *)
(***************************************************************************)
\* Largest number of words joined by "_" into a column name.
MaxParts == 2
\* Longest work enumeration handed to a scan driver.
MaxItems == 3
\* Longest detector list handed to a scan driver.
MaxDetectors == 2
\* Largest sample_size argument of data_scan.
MaxSample == 2

(***************************************************************************)
(* Text helpers: re.IGNORECASE and substring search.                       *)
(***************************************************************************)
UpperToLower ==
    ("A" :> "a") @@ ("B" :> "b") @@ ("C" :> "c") @@ ("D" :> "d") @@ ("E" :> "e") @@
    ("F" :> "f") @@ ("G" :> "g") @@ ("H" :> "h") @@ ("I" :> "i") @@ ("J" :> "j") @@
    ("K" :> "k") @@ ("L" :> "l") @@ ("M" :> "m") @@ ("N" :> "n") @@ ("O" :> "o") @@
    ("P" :> "p") @@ ("Q" :> "q") @@ ("R" :> "r") @@ ("S" :> "s") @@ ("T" :> "t") @@
    ("U" :> "u") @@ ("V" :> "v") @@ ("W" :> "w") @@ ("X" :> "x") @@ ("Y" :> "y") @@
    ("Z" :> "z")

\* Case folding of one character, as re.IGNORECASE compares it.
LowerChar(c) == IF c \in DOMAIN UpperToLower THEN UpperToLower[c] ELSE c

\* token occurs in s at position i (case-insensitively).
OccursAt(s, token, i) ==
    /\ i + Len(token) - 1 <= Len(s)
    /\ \A j \in 1..Len(token) : LowerChar(s[i + j - 1]) = token[j]

Contains(s, token) == \E i \in 1..Len(s) : OccursAt(s, token, i)

\* "." does not match a newline and "$" matches at the end of the string or
\* just before a newline that ends it: "^.* ... .*$" can only match a text
\* whose only newline, if any, is its last character.
OneLine(s) == \A i \in 1..Len(s) : s[i] = "\n" => i = Len(s)

\* re.compile("^.*(t1|t2|...).*$", re.IGNORECASE).match(s) is not None
RegexMatch(tokens, s) == OneLine(s) /\ \E t \in tokens : Contains(s, t)

(***************************************************************************)
(* ColumnNameRegexDetector.regex: the alternatives of each pattern.        *)
(***************************************************************************)
PersonTokens ==
    { <<"f","i","r","s","t","n","a","m","e">>, <<"f","n","a","m","e">>, <<"l","a","s","t","n","a","m","e">>, <<"l","n","a","m","e">>, <<"f","u","l","l","n","a","m","e">>,
      <<"m","a","i","d","e","n","n","a","m","e">>, <<"_","n","a","m","e">>, <<"n","i","c","k","n","a","m","e">>, <<"n","a","m","e","_","s","u","f","f","i","x">>, <<"n","a","m","e">>,
      <<"p","e","r","s","o","n">>, <<"n","a","m","a">>, <<"n","a","m","a","_","l","e","n","g","k","a","p">>, <<"n","a","m","a","_","p","a","n","j","a","n","g">> }
EmailTokens == { <<"e","m","a","i","l">>, <<"e","-","m","a","i","l">>, <<"m","a","i","l">> }
BirthDateTokens ==
    { <<"d","a","t","e","_","o","f","_","b","i","r","t","h">>, <<"d","a","t","e","o","f","b","i","r","t","h">>, <<"d","o","b">>, <<"b","i","r","t","h","d","a","y">>,
      <<"d","a","t","e","_","o","f","_","d","e","a","t","h">>, <<"d","a","t","e","o","f","d","e","a","t","h">>, <<"b","i","r","t","h","d","a","t","e">>, <<"t","a","n","g","g","a","l","_","l","a","h","i","r">> }
GenderTokens == { <<"g","e","n","d","e","r">>, <<"j","e","n","i","s","_","k","e","l","a","m","i","n">> }
NationalityTokens == { <<"n","a","t","i","o","n","a","l","i","t","y">> }
AddressTokens ==
    { <<"a","d","d","r","e","s","s">>, <<"c","i","t","y">>, <<"s","t","a","t","e">>, <<"c","o","u","n","t","y">>, <<"c","o","u","n","t","r","y">>, <<"z","o","n","e">>,
      <<"b","o","r","o","u","g","h">>, <<"a","l","a","m","a","t">>, <<"p","r","o","v","i","n","s","i">>, <<"k","o","t","a">>, <<"k","a","b","u","p","a","t","e","n">>,
      <<"k","e","c","a","m","a","t","a","n">>, <<"k","e","l","u","r","a","h","a","n">>, <<"d","e","s","a">>, <<"n","o","m","o","r","_","r","u","m","a","h">> }
ZipCodeTokens ==
    { <<"z","i","p","c","o","d","e">>, <<"z","i","p","_","c","o","d","e">>, <<"p","o","s","t","a","l">>, <<"p","o","s","t","a","l","_","c","o","d","e">>, <<"z","i","p">>,
      <<"k","o","d","e","_","p","o","s">>, <<"p","o","s">> }
\* "user(id|name|)": the empty alternative makes the group match after any "user".
UserNameTokens == { <<"u","s","e","r","i","d">>, <<"u","s","e","r","n","a","m","e">>, <<"u","s","e","r">> }
PasswordTokens == { <<"p","a","s","s">> }
SSNTokens ==
    { <<"s","s","n">>, <<"s","o","c","i","a","l","_","n","u","m","b","e","r">>, <<"s","o","c","i","a","l","_","s","e","c","u","r","i","t","y">>,
      <<"s","o","c","i","a","l","_","s","e","c","u","r","i","t","y","_","n","u","m","b","e","r">>, <<"s","o","c","i","a","l","_","s","e","c","u","r","i","t","y","_","n","o">> }
PoBoxTokens == { <<"p","o","_","b","o","x">>, <<"p","o","b","o","x">> }
CreditCardTokens ==
    { <<"c","r","e","d","i","t","_","c","a","r","d">>, <<"c","c","_","n","u","m","b","e","r">>, <<"c","c","_","n","u","m">>, <<"c","r","e","d","i","t","c","a","r","d">>,
      <<"c","r","e","d","i","t","_","c","a","r","d","_","n","u","m">>, <<"c","r","e","d","i","t","c","a","r","d","n","u","m","b","e","r">>, <<"k","a","r","t","u","_","k","r","e","d","i","t">>,
      <<"n","o","m","o","r","_","r","e","k","e","n","i","n","g">>, <<"r","e","k","e","n","i","n","g">> }
PhoneTokens ==
    { <<"p","h","o","n","e">>, <<"p","h","o","n","e","_","n","u","m","b","e","r">>, <<"p","h","o","n","e","_","n","o">>, <<"p","h","o","n","e","_","n","u","m">>, <<"t","e","l","e","p","h","o","n","e">>,
      <<"t","e","l","e","p","h","o","n","e","_","n","u","m">>, <<"t","e","l","e","p","h","o","n","e","_","n","o">>, <<"t","e","l","p">>, <<"n","o","m","o","r","_","t","e","l","e","p","o","n">>,
      <<"n","o","m","o","r","_","h","a","n","d","p","h","o","n","e">>, <<"h","a","n","d","p","h","o","n","e">>, <<"t","e","l","e","p","o","n">>, <<"n","o","_","t","e","l","e","p","o","n">>,
      <<"n","o","_","h","a","n","d","p","h","o","n","e">> }
KTPTokens ==
    { <<"k","t","p">>, <<"k","t","p","_","n","a","m","e">>, <<"k","t","p","_","n","u","m","b","e","r">>, <<"n","a","m","a","_","k","t","p">>, <<"n","o","m","o","r","_","k","t","p">>,
      <<"k","t","p","_","n","a","m","a">>, <<"k","t","p","_","n","o","m","o","r">>, <<"k","t","p","_","n","o">> }

\* The index of the entry of a table for a PII type.
IndexOf(table, t) == CHOOSE k \in 1..Len(table) : table[k].pii_type = t

\* The table with the entry at index a moved to index b (a > b).
MovedBefore(table, a, b) ==
    [k \in 1..Len(table) |->
        IF k < b \/ k > a THEN table[k]
        ELSE IF k = b THEN table[a]
        ELSE table[k - 1]]

\* The dict in definition order, which is the order regex.items() iterates in.
regex ==
    << [pii_type |-> "Person",      tokens |-> PersonTokens],
       [pii_type |-> "Email",       tokens |-> EmailTokens],
       [pii_type |-> "BirthDate",   tokens |-> BirthDateTokens],
       [pii_type |-> "Gender",      tokens |-> GenderTokens],
       [pii_type |-> "Nationality", tokens |-> NationalityTokens],
       [pii_type |-> "Address",     tokens |-> AddressTokens],
       [pii_type |-> "ZipCode",     tokens |-> ZipCodeTokens],
       [pii_type |-> "UserName",    tokens |-> UserNameTokens],
       [pii_type |-> "Password",    tokens |-> PasswordTokens],
       [pii_type |-> "SSN",         tokens |-> SSNTokens],
       [pii_type |-> "PoBox",       tokens |-> PoBoxTokens],
       [pii_type |-> "CreditCard",  tokens |-> CreditCardTokens],
       [pii_type |-> "Phone",       tokens |-> PhoneTokens],
       [pii_type |-> "KTP",         tokens |-> KTPTokens] >>

\* The table with Email defined before Person.
regex_EmailFirst == MovedBefore(regex, IndexOf(regex, "Email"), IndexOf(regex, "Person"))

\* The table with PoBox defined before Address.
regex_PoBoxBeforeAddress ==
    MovedBefore(regex, IndexOf(regex, "PoBox"), IndexOf(regex, "Address"))

\* The table the detector iterates over.
regex_items == regex

\* The for loop of detect over a table: the first entry from index i on whose
\* pattern matches the name, None when the table is exhausted.
RECURSIVE DetectFrom(_, _, _)
DetectFrom(table, name, i) ==
    IF i > Len(table) THEN None
    ELSE IF RegexMatch(table[i].tokens, name) THEN table[i].pii_type
    ELSE DetectFrom(table, name, i + 1)

\* ColumnNameRegexDetector.detect(column)
ColumnNameRegexDetector_detect(col) == DetectFrom(regex_items, col.name, 1)

(***************************************************************************)
(* Column names the name detector is run on: up to MaxParts words of the   *)
(* vocabulary joined by "_".                                               *)
(***************************************************************************)
Words ==
    { <<"u","s","e","r">>, <<"e","m","a","i","l">>, <<"z","i","p">>, <<"c","o","d","e">>, <<"n","o","t","e","s">>, <<"p","o">>, <<"b","o","x">>,
      <<"p","o","b","o","x">>, <<"P","O">>, <<"B","O","X">>, <<"a","d","d","r","e","s","s">>, <<"c","i","t","y">>, <<"n","a","m","e">>, <<"s","s","n">>,
      <<"p","h","o","n","e">>, <<"k","t","p">>, <<"p","a","s","s">>, <<"i","d">>, <<"d","o","b">>, <<"E","m","a","i","l">>, <<"e","s","t","a","t","e">>,
      <<"p","o","s","t","a","l">>, <<"c","a","r","d">>, <<"\n">> }

RECURSIVE NamesOf(_)
NamesOf(n) ==
    IF n <= 1 THEN Words
    ELSE NamesOf(n - 1) \cup { a \o <<"_">> \o w : a \in NamesOf(n - 1), w \in Words }

Names == NamesOf(MaxParts)

(***************************************************************************)
(* DatumRegexDetector.  The recognizers of the CommonRegex library are     *)
(* external: a text is described by the set of recognizers that find       *)
(* something in it, and by whether it is the empty text.                   *)
(***************************************************************************)
Recognizers ==
    { "phones", "emails", "credit_cards", "street_addresses", "ssn_numbers",
      "zip_codes", "po_boxes", "ktp" }

Texts == [empty : BOOLEAN, hits : SUBSET Recognizers]

\* A sampled value: a Python str or a number, with the text str() gives for it.
\* Only a str can be the empty text.
Datums ==
    { d \in [type : {"str", "int"}, text : Texts] : d.text.empty => d.type = "str" }

\* Python's None as a sampled value: the work item has no value.
NoneVal == [type |-> "NoneType", text |-> [empty |-> FALSE, hits |-> {}]]

\* No column (the detector is not being called).
NoColumn == [name |-> << >>, text |-> FALSE]

\* str(datum)
str(datum) == datum.text

\* CommonRegex.<recognizer>(data): the list of matches is non-empty
CommonRegex(recognizer, data) == recognizer \in data.hits

\* The e-mail test moved before the phone test.
DatumRegexDetector_detect_EmailFirst(col, datum) ==
    LET data == str(datum) IN
    IF CommonRegex("emails", data) THEN "Email"
    ELSE IF CommonRegex("phones", data) THEN "Phone"
    ELSE IF CommonRegex("credit_cards", data) THEN "CreditCard"
    ELSE IF CommonRegex("street_addresses", data) THEN "Address"
    ELSE IF CommonRegex("ssn_numbers", data) THEN "SSN"
    ELSE IF CommonRegex("zip_codes", data) THEN "ZipCode"
    ELSE IF CommonRegex("po_boxes", data) THEN "PoBox"
    ELSE IF CommonRegex("ktp", data) THEN "KTP"
    ELSE None

\* DatumRegexDetector.detect(column, datum)
DatumRegexDetector_detect(col, datum) ==
    LET data == str(datum) IN
    IF CommonRegex("phones", data) THEN "Phone"
    ELSE IF CommonRegex("emails", data) THEN "Email"
    ELSE IF CommonRegex("credit_cards", data) THEN "CreditCard"
    ELSE IF CommonRegex("street_addresses", data) THEN "Address"
    ELSE IF CommonRegex("ssn_numbers", data) THEN "SSN"
    ELSE IF CommonRegex("zip_codes", data) THEN "ZipCode"
    ELSE IF CommonRegex("po_boxes", data) THEN "PoBox"
    ELSE IF CommonRegex("ktp", data) THEN "KTP"
    ELSE None

(***************************************************************************)
(* The scan drivers.                                                       *)
(***************************************************************************)
\* Columns of the scanned catalog: name and whether the data type is text.
ScanColumns ==
    { [name |-> <<"u","s","e","r","_","e","m","a","i","l">>, text |-> TRUE],
      [name |-> <<"i","d">>,         text |-> FALSE] }

\* Sampled values of a data scan: no value, the empty string, a text with a
\* phone number and an e-mail address in it, and plain prose.
ScanValues ==
    { NoneVal,
      [type |-> "str", text |-> [empty |-> TRUE,  hits |-> {}]],
      [type |-> "str", text |-> [empty |-> FALSE, hits |-> {"phones", "emails"}]],
      [type |-> "str", text |-> [empty |-> FALSE, hits |-> {}]] }

\* Detectors a caller can put in the list: the built-in one of each capability
\* and a plug-in registered through the extension point that labels every
\* column (every value) it is shown.
MetadataDetectors == { "ColumnNameRegexDetector", "AnyColumnDetector" }
DatumDetectors == { "DatumRegexDetector", "AnyDatumDetector" }

\* detector.detect(column) / detector.detect(column=column, datum=val)
Detect(detector, col, val) ==
    CASE detector = "ColumnNameRegexDetector" -> ColumnNameRegexDetector_detect(col)
      [] detector = "DatumRegexDetector"      -> DatumRegexDetector_detect(col, val)
      [] detector = "AnyColumnDetector"       -> "Person"
      [] detector = "AnyDatumDetector"        -> "Person"

SeqsUpTo(S, n) == UNION { [1..k -> S] : k \in 0..n }

\* Nothing tried, nothing found.
NoResult == [tried |-> << >>, hits |-> << >>]

\* The loop without its break: every matching detector writes.
RECURSIVE DetectorLoop_NoBreak(_, _, _, _)
DetectorLoop_NoBreak(ds, col, val, k) ==
    IF k > Len(ds) THEN NoResult
    ELSE LET type == Detect(ds[k], col, val)
             rest == DetectorLoop_NoBreak(ds, col, val, k + 1)
         IN [tried |-> << ds[k] >> \o rest.tried,
             hits  |-> IF type # None
                       THEN << [pii_type |-> type, pii_plugin |-> ds[k]] >> \o rest.hits
                       ELSE rest.hits]

\* The loop with its break outside the if: only the first detector is tried.
DetectorLoop_FirstOnly(ds, col, val, k) ==
    IF k > Len(ds) THEN NoResult
    ELSE LET type == Detect(ds[k], col, val) IN
         [tried |-> << ds[k] >>,
          hits  |-> IF type # None
                    THEN << [pii_type |-> type, pii_plugin |-> ds[k]] >>
                    ELSE << >>]

\* The loop without its break and with the write after it: the last matching
\* detector wins.
DetectorLoop_LastWins(ds, col, val, k) ==
    LET all == DetectorLoop_NoBreak(ds, col, val, k) IN
    [tried |-> all.tried,
     hits  |-> IF all.hits = << >> THEN << >> ELSE << all.hits[Len(all.hits)] >>]

\* "for detector in detectors: type = detector.detect(...); if type is not
\* None: ...; break", from detector k on: the detectors whose detect was
\* called and the classifications written.
RECURSIVE DetectorLoop(_, _, _, _)
DetectorLoop(ds, col, val, k) ==
    IF k > Len(ds) THEN NoResult
    ELSE LET type == Detect(ds[k], col, val) IN
         IF type # None
         THEN [tried |-> << ds[k] >>,
               hits  |-> << [pii_type |-> type, pii_plugin |-> ds[k]] >>]
         ELSE LET rest == DetectorLoop(ds, col, val, k + 1) IN
              [tried |-> << ds[k] >> \o rest.tried, hits |-> rest.hits]

\* "if val:" instead of "if val is not None:".
Skipped_EmptyToo(val) == val = NoneVal \/ val.text.empty

\* No guard at all.
Skipped_Never(val) == FALSE

\* data_scan's "if val is not None" guard, negated.
Skipped(val) == val = NoneVal

\* _filter_text_columns(columns)
filter_text_columns(columns) == SelectSeq(columns, LAMBDA c : c.text)

\* The failure caught and logged inside the loop: the scan goes on.
OnCatalogFault_Swallowed == "loop"

\* A failure of set_column_pii_type is caught nowhere: the driver is left.
OnCatalogFault == "raised"

VARIABLES
    column,       \* the CatColumn handed to ColumnNameRegexDetector.detect
    ret,          \* what it returned; "unset" before the call
    datum,        \* the datum handed to DatumRegexDetector.detect
    rets,         \* what it returned, per column it was called with
    mode,         \* which driver runs: "metadata" or "data"
    detectors,    \* the detectors argument
    generator,    \* the work enumeration: items [column, val]
    sample_size,  \* the sample_size argument (data_scan)
    pc,           \* "start", "loop", "done", "raised" ("idle": no scan)
    total,        \* total_columns (metadata_scan) / total_work (data_scan)
    counter,      \* items consumed
    set_number,   \* items labeled
    calls,        \* detect calls made: [item, detector]
    writes,       \* set_column_pii_type calls that returned
    scan_log,     \* records of logger piicatcher.scan
    data_log,     \* records of logger piicatcher.data
    summary,      \* the closing LOGGER.info: << counter, set_number >>
    fault         \* the item at which set_column_pii_type raised, 0 if none

detVars == << column, ret, datum, rets >>
scanVars == << mode, detectors, generator, sample_size, pc, total, counter,
               set_number, calls, writes, scan_log, data_log, summary, fault >>
vars == << detVars, scanVars >>

NoScan ==
    /\ mode = "none" /\ detectors = << >> /\ generator = << >> /\ sample_size = 0
    /\ pc = "idle" /\ total = 0 /\ counter = 0 /\ set_number = 0
    /\ calls = << >> /\ writes = << >> /\ scan_log = << >> /\ data_log = << >>
    /\ summary = None /\ fault = 0

(***************************************************************************)
(* SpecName: ColumnNameRegexDetector.detect on every name of Names.        *)
(***************************************************************************)
InitName ==
    /\ column \in { [name |-> n, text |-> TRUE] : n \in Names }
    /\ ret = "unset"
    /\ datum = NoneVal /\ rets = << >>
    /\ NoScan

NameDetect ==
    /\ ret = "unset"
    /\ ret' = ColumnNameRegexDetector_detect(column)
    /\ UNCHANGED << column, datum, rets, scanVars >>

NextName == NameDetect

SpecName == InitName /\ [][NextName]_vars

(***************************************************************************)
(* SpecDatum: DatumRegexDetector.detect on every datum, with each column.  *)
(***************************************************************************)
InitDatum ==
    /\ datum \in Datums
    /\ rets = [c \in ScanColumns |-> "unset"]
    /\ column = NoColumn /\ ret = "unset"
    /\ NoScan

DatumDetect(c) ==
    /\ rets[c] = "unset"
    /\ rets' = [rets EXCEPT ![c] = DatumRegexDetector_detect(c, datum)]
    /\ UNCHANGED << column, ret, datum, scanVars >>

NextDatum == \E c \in ScanColumns : DatumDetect(c)

SpecDatum == InitDatum /\ [][NextDatum]_vars

(***************************************************************************)
(* Spec: one call of metadata_scan or data_scan.                           *)
(***************************************************************************)
\* The sizing enumeration yields the columns of the work enumeration.
work_generator == [i \in 1..Len(generator) |-> generator[i].column]

Init ==
    /\ column = NoColumn /\ ret = "unset" /\ datum = NoneVal /\ rets = << >>
    /\ mode \in {"metadata", "data"}
    /\ detectors \in SeqsUpTo(IF mode = "metadata" THEN MetadataDetectors
                               ELSE DatumDetectors, MaxDetectors)
    /\ generator \in SeqsUpTo(
           IF mode = "metadata" THEN [column : ScanColumns, val : {NoneVal}]
           ELSE [column : ScanColumns, val : ScanValues], MaxItems)
    /\ sample_size \in IF mode = "metadata" THEN {0} ELSE 1..MaxSample
    /\ pc = "start"
    /\ total = 0 /\ counter = 0 /\ set_number = 0
    /\ calls = << >> /\ writes = << >> /\ scan_log = << >> /\ data_log = << >>
    /\ summary = None /\ fault = 0

\* The sizing pass and the initialisation of the counters.
Sizing ==
    /\ pc = "start"
    /\ total' = IF mode = "metadata" THEN Len(work_generator)
                ELSE Len(filter_text_columns(work_generator)) * sample_size
    /\ counter' = 0
    /\ set_number' = 0
    /\ pc' = "loop"
    /\ UNCHANGED << detVars, mode, detectors, generator, sample_size, calls,
                    writes, scan_log, data_log, summary, fault >>

\* One iteration of the for loop over the work enumeration, with the result r
\* of its detector loop; ok: set_column_pii_type returns (it is called only
\* when there is a hit).
Iteration(r, ok) ==
    LET n == counter + 1
        item == generator[n]
    IN
    /\ (r.hits = << >>) => ok
    /\ counter' = n
    /\ calls' = calls \o [j \in 1..Len(r.tried) |-> [item |-> n, detector |-> r.tried[j]]]
    /\ IF ok
       THEN /\ set_number' = set_number + Len(r.hits)
            /\ writes' = writes \o
                 [j \in 1..Len(r.hits) |->
                    [item |-> n, column |-> item.column,
                     pii_type |-> r.hits[j].pii_type,
                     pii_plugin |-> r.hits[j].pii_plugin]]
            /\ scan_log' = IF mode = "data"
                 THEN scan_log \o
                      [j \in 1..Len(r.hits) |->
                         [item |-> n, column |-> item.column,
                          pii_types |-> r.hits[j].pii_type]]
                 ELSE scan_log
            /\ data_log' = IF mode = "data"
                 THEN data_log \o
                      [j \in 1..Len(r.hits) |->
                         [item |-> n, column |-> item.column, data |-> item.val,
                          pii_types |-> r.hits[j].pii_type]]
                 ELSE data_log
            /\ pc' = pc
            /\ fault' = fault
       ELSE /\ set_number' = set_number + 1
            /\ pc' = OnCatalogFault
            /\ fault' = n
            /\ UNCHANGED << writes, scan_log, data_log >>
    /\ UNCHANGED << detVars, mode, detectors, generator, sample_size, total, summary >>

\* metadata_scan, lines 115-127
MetadataItem ==
    /\ pc = "loop" /\ mode = "metadata" /\ counter < Len(generator)
    /\ \E ok \in BOOLEAN :
         Iteration(DetectorLoop(detectors, generator[counter + 1].column, NoneVal, 1), ok)

\* data_scan, lines 175-198
DataItem ==
    /\ pc = "loop" /\ mode = "data" /\ counter < Len(generator)
    /\ LET item == generator[counter + 1] IN
       \E ok \in BOOLEAN :
         Iteration(IF Skipped(item.val) THEN NoResult
                   ELSE DetectorLoop(detectors, item.column, item.val, 1), ok)

\* The work enumeration is exhausted: the closing LOGGER.info.
Finish ==
    /\ pc = "loop" /\ counter = Len(generator)
    /\ summary' = << counter, set_number >>
    /\ pc' = "done"
    /\ UNCHANGED << detVars, mode, detectors, generator, sample_size, total, counter,
                    set_number, calls, writes, scan_log, data_log, fault >>

Next == Sizing \/ MetadataItem \/ DataItem \/ Finish

Spec == Init /\ [][Next]_vars

(***************************************************************************)
(* Helpers of the properties.                                              *)
(***************************************************************************)
\* The indices of a sequence whose element satisfies P.
Where(seq, P(_)) == { j \in 1..Len(seq) : P(seq[j]) }

Count(seq, P(_)) == Cardinality(Where(seq, P))

\* Whether item n of the work enumeration is shown to the detectors at all.
Shown(n) == mode = "metadata" \/ generator[n].val # NoneVal

\* The detectors of the list (by position) that match item n.
Matching(n) ==
    { k \in 1..Len(detectors) :
        Detect(detectors[k], generator[n].column, generator[n].val) # None }

Min(S) == CHOOSE x \in S : \A y \in S : x <= y

\* The detectors called for item n, in call order.
TriedFor(n) ==
    LET mine == SelectSeq(calls, LAMBDA c : c.item = n) IN
    [j \in 1..Len(mine) |-> mine[j].detector]

C2_MetadataCounts ==
    (mode = "metadata" /\ pc = "done") =>
        LET N == Len(generator)
            Matched == { n \in 1..N : Matching(n) # {} }
            K == Cardinality(Matched)
        IN /\ counter = N
           /\ set_number = K
           /\ summary = << N, K >>
           /\ Len(writes) = K
           /\ \A n \in 1..N :
                Count(writes, LAMBDA w : w.item = n) = IF n \in Matched THEN 1 ELSE 0

\* A finished metadata scan with both matched and unmatched columns.
C2_Witness ==
    /\ mode = "metadata" /\ pc = "done"
    /\ \E n, m \in 1..Len(generator) : Matching(n) # {} /\ Matching(m) = {}
    /\ Len(writes) >= 1 /\ Len(writes) < counter

(***************************************************************************)
(* C3 (as stated): when data_scan finishes over N items of which J have a  *)
(* non-empty value (neither None nor "") that some detector matches,       *)
(* processed = N, labeled = J, the catalog got J writes, piicatcher.scan J  *)
(* records without the value and piicatcher.data J records with it.        *)
(***************************************************************************)
DataCounts(J) ==
    /\ counter = Len(generator)
    /\ set_number = J
    /\ summary = << Len(generator), J >>
    /\ Len(writes) = J
    /\ Len(scan_log) = J
    /\ Len(data_log) = J
    /\ \A j \in 1..Len(scan_log) : "data" \notin DOMAIN scan_log[j]
    /\ \A j \in 1..Len(data_log) : data_log[j].data = generator[data_log[j].item].val

C5_NonTextNeverScanned ==
    mode = "data" =>
        LET kept == filter_text_columns(work_generator)
            Kept(c) == \E j \in 1..Len(kept) : kept[j] = c
        IN /\ \A j \in 1..Len(calls) : Kept(generator[calls[j].item].column)
           /\ \A j \in 1..Len(writes) : Kept(writes[j].column)

(***************************************************************************)
(* C6: in both drivers the detectors are tried in list order and no        *)
(* further after the first one that finds something; the single write      *)
(* carries the type and the name of that detector.                         *)
(***************************************************************************)
C6_FirstMatchWins ==
    \A n \in 1..counter :
        Shown(n) =>
            LET first == IF Matching(n) = {} THEN Len(detectors) ELSE Min(Matching(n))
                mine == Where(writes, LAMBDA w : w.item = n)
            IN /\ TriedFor(n) = SubSeq(detectors, 1, first)
               /\ Cardinality(mine) = IF Matching(n) = {} \/ fault = n THEN 0 ELSE 1
               /\ \A j \in mine :
                    /\ writes[j].pii_plugin = detectors[first]
                    /\ writes[j].pii_type =
                         Detect(detectors[first], generator[n].column, generator[n].val)
                    /\ writes[j].column = generator[n].column

\* An item that two different detectors of the list match, written with the
\* first one's type and name.
C6_Witness ==
    /\ pc = "done" /\ Len(detectors) = 2 /\ detectors[1] # detectors[2]
    /\ \E n \in 1..Len(generator) :
         /\ Matching(n) = {1, 2}
         /\ Detect(detectors[1], generator[n].column, generator[n].val)
              # Detect(detectors[2], generator[n].column, generator[n].val)
         /\ \E j \in 1..Len(writes) :
              writes[j].item = n /\ writes[j].pii_plugin = detectors[1]

(***************************************************************************)
(* C7: when set_column_pii_type raises, the scan is left with that         *)
(* failure: the failing call writes and logs nothing, what was written     *)
(* before stays, and afterwards no item is consumed, no detector called,   *)
(* nothing written and no summary logged.                                  *)
(***************************************************************************)
C7_FaultAborts ==
    [][ fault' # 0 =>
          /\ pc' = "raised"
          /\ summary' = None
          /\ writes' = writes /\ scan_log' = scan_log /\ data_log' = data_log
          /\ fault # 0 => UNCHANGED << counter, set_number, calls, fault >> ]_vars

\* A scan that failed after a first write, with work left over.
C7_Witness ==
    /\ pc = "raised" /\ fault >= 2 /\ fault < Len(generator)
    /\ writes # << >>
    /\ counter = fault

(***************************************************************************)
(* C8: ColumnNameRegexDetector.detect returns the category of the first    *)
(* entry, in the order Person, Email, BirthDate, Gender, Nationality,      *)
(* Address, ZipCode, UserName, Password, SSN, PoBox, CreditCard, Phone,    *)
(* KTP, whose pattern matches the name, and None when none matches;        *)
(* "user_email" gives Email, "zip_code" ZipCode, "notes" None.             *)
(***************************************************************************)
TableOrder ==
    << "Person", "Email", "BirthDate", "Gender", "Nationality", "Address",
       "ZipCode", "UserName", "Password", "SSN", "PoBox", "CreditCard", "Phone",
       "KTP" >>

\* Whether the pattern of PII type t matches the name.
PatternMatches(t, name) == RegexMatch(regex[IndexOf(regex, t)].tokens, name)

C8_FirstEntryInTableOrder ==
    ret # "unset" =>
        LET hit == { k \in 1..Len(TableOrder) : PatternMatches(TableOrder[k], column.name) }
        IN /\ ret = IF hit = {} THEN None ELSE TableOrder[Min(hit)]
           /\ column.name = <<"u","s","e","r","_","e","m","a","i","l">> => ret = "Email"
           /\ column.name = <<"z","i","p","_","c","o","d","e">> => ret = "ZipCode"
           /\ column.name = <<"n","o","t","e","s">> => ret = None

\* A name that the Person and the Email pattern both match.
C8_Witness ==
    /\ ret = "Person"
    /\ column.name = <<"e","m","a","i","l","_","n","a","m","e">>
    /\ PatternMatches("Email", column.name)

(***************************************************************************)
(* C9 (as stated): a name containing po_box or pobox, in any letter case,  *)
(* is never classified as Address.                                         *)
(***************************************************************************)
PoBoxLike(name) == Contains(name, <<"p","o","_","b","o","x">>) \/ Contains(name, <<"p","o","b","o","x">>)

C9_PoBoxNeverAddress ==
    (ret # "unset" /\ PoBoxLike(column.name)) => ret # "Address"

(***************************************************************************)
(* C9 (amended): Address is listed before PoBox.  A name containing po_box *)
(* or pobox is classified PoBox exactly when its pattern matches and none  *)
(* of the ten patterns listed before PoBox does; when it also contains an  *)
(* address token and none of the five patterns before Address matches, it  *)
(* is classified Address.                                                  *)
(***************************************************************************)
C9_PoBoxAfterAddress ==
    (ret # "unset" /\ PoBoxLike(column.name)) =>
        LET Position(t) == CHOOSE k \in 1..Len(TableOrder) : TableOrder[k] = t
            Earlier(t) == \E k \in 1..(Position(t) - 1) :
                             PatternMatches(TableOrder[k], column.name)
        IN /\ ret = "PoBox" <=> (OneLine(column.name) /\ ~Earlier("PoBox"))
           /\ (PatternMatches("Address", column.name) /\ ~Earlier("Address"))
                => ret = "Address"

\* A PO-box name with an address token in it, classified Address.
C9_Witness ==
    /\ column.name = <<"p","o","b","o","x","_","c","i","t","y">>
    /\ ret = "Address"

(***************************************************************************)
(* C10: DatumRegexDetector.detect returns the type of the first recognizer *)
(* in the order phone, email, credit card, street address, SSN, ZIP code,  *)
(* PO box, KTP that matches the datum as text, None when none does, and    *)
(* the same for every column it is called with.                            *)
(***************************************************************************)
RecognizerOrder ==
    << [recognizer |-> "phones",           pii_type |-> "Phone"],
       [recognizer |-> "emails",           pii_type |-> "Email"],
       [recognizer |-> "credit_cards",     pii_type |-> "CreditCard"],
       [recognizer |-> "street_addresses", pii_type |-> "Address"],
       [recognizer |-> "ssn_numbers",      pii_type |-> "SSN"],
       [recognizer |-> "zip_codes",        pii_type |-> "ZipCode"],
       [recognizer |-> "po_boxes",         pii_type |-> "PoBox"],
       [recognizer |-> "ktp",              pii_type |-> "KTP"] >>

====
